---- MODULE Spec2Model ----
(***************************************************************************)
(* Model of libmproxy/protocol/tls.py: the TlsLayer of mitmproxy.          *)
(*                                                                         *)
(* Python values are modelled as follows: None and False are the reserved  *)
(* strings below, host names are strings, ALPN tokens are sequences of     *)
(* one-character strings (so that startswith can be computed), byte        *)
(* strings are sequences of numbers 0..255, exceptions are records.        *)
(***************************************************************************)
EXTENDS Integers, Sequences, FiniteSets, TLC

\* ------------------------------------------------------------------ bounds
\* largest ClientHello body (bytes after the 4-byte handshake header)
MaxBody == 2
\* most bytes the last record carries beyond the end of the ClientHello
MaxExtra == 1
\* most connect/reconnect/set_server events after the next layer started
MaxEvents == 2

\* ------------------------------------------------------- python primitives
None == "<None>"
False == "<False>"
True == "<True>"

\* an optional list: python None, or a list
NoneList == [none |-> TRUE, v |-> <<>>]
List(l) == [none |-> FALSE, v |-> l]

Min(a, b) == IF a < b THEN a ELSE b

\* s[a:b] of a python string
Slice(s, a, b) == SubSeq(s, a + 1, Min(b, Len(s)))

\* s[a:]
SliceFrom(s, a) == SubSeq(s, a + 1, Len(s))

\* python truthiness of None / True / False / a string
Truthy(x) == x # None /\ x # False /\ x # ""

\* python truthiness of None / a list
TruthyList(l) == ~l.none /\ l.v # <<>>

\* x or y
PyOr(x, y) == IF Truthy(x) THEN x ELSE y

\* ------------------------------------------------------------ record layer
is_tls_record_magic(d0) ==
    LET d == Slice(d0, 0, 3)
    IN  /\ Len(d) = 3
        /\ d[1] = 22
        /\ d[2] = 3
        /\ d[3] \in {0, 1, 2, 3}

\* rfile.peek(n): up to n bytes from the read cursor, without moving it
peek(file, pos, n) == SubSeq(file, pos + 1, Min(pos + n, Len(file)))

\* struct.unpack("!H", b)[0]
unpack_H(b) == b[1] * 256 + b[2]

\* struct.unpack("!I", b)[0]; struct.error unless len(b) == 4
unpack_I_ok(b) == Len(b) = 4
unpack_I(b) == ((b[1] * 256 + b[2]) * 256 + b[3]) * 256 + b[4]

\* exceptions: the class, the message and the class of the wrapped cause
NoError == [type |-> None, msg |-> "", cause |-> None]
ProtocolException(msg, cause) == [type |-> "ProtocolException", msg |-> msg, cause |-> cause]
StructError == [type |-> "struct.error", msg |-> "unpack requires a string argument of length 4", cause |-> None]
IndexError == [type |-> "IndexError", msg |-> "list index out of range", cause |-> None]

\* the while loop of _get_client_hello, one iteration per record
RECURSIVE get_client_hello_loop(_, _, _, _, _)
get_client_hello_loop(file, pos, client_hello, client_hello_size, offset) ==
    IF ~(Len(client_hello) < client_hello_size)
    THEN [raised |-> NoError, value |-> client_hello, offset |-> offset]
    ELSE
      LET record_header == SliceFrom(peek(file, pos, offset + 5), offset)
      IN
      IF ~is_tls_record_magic(record_header) \/ Len(record_header) # 5
      THEN [raised |-> ProtocolException("Expected TLS record, got ... instead.", None),
            value |-> <<>>, offset |-> offset]
      ELSE
        LET record_size == unpack_H(SliceFrom(record_header, 3)) + 5
            record_body == SliceFrom(peek(file, pos, offset + record_size), offset + 5)
        IN
        IF Len(record_body) # record_size - 5
        THEN [raised |-> ProtocolException("Unexpected EOF in TLS handshake", None),
              value |-> <<>>, offset |-> offset]
        ELSE
          LET hello2 == client_hello \o record_body
              lenfield == <<0>> \o Slice(hello2, 1, 4)
          IN
          IF ~unpack_I_ok(lenfield)
          THEN [raised |-> StructError, value |-> <<>>, offset |-> offset + record_size]
          ELSE get_client_hello_loop(file, pos, hello2, unpack_I(lenfield) + 4,
                                     offset + record_size)

get_client_hello(file, pos) == get_client_hello_loop(file, pos, <<>>, 1, 0)

\* ------------------------------------------------ client byte streams (inputs)
\* a handshake message of type client_hello (1) with an n-byte body
HandshakeMessage(n) == <<1, 0, 0, n>> \o [i \in 1..n |-> 100 + i]

\* one TLS record (content type handshake, version 3.1) around a fragment
TlsRecord(body) == <<22, 3, 1, Len(body) \div 256, Len(body) % 256>> \o body

\* the fragments of msg when it is cut after the positions in cuts
RECURSIVE Fragments(_, _, _, _)
Fragments(msg, cuts, start, i) ==
    IF i > Len(msg) THEN <<>>
    ELSE IF i = Len(msg) \/ i \in cuts
         THEN <<SubSeq(msg, start, i)>> \o Fragments(msg, cuts, i + 1, i + 1)
         ELSE Fragments(msg, cuts, start, i + 1)

\* the bytes that follow the ClientHello inside its last record
ExtraBytes(k) == [i \in 1..k |-> 200 + i]

RECURSIVE Records(_, _)
Records(frags, extra) ==
    IF frags = <<>> THEN <<>>
    ELSE IF Len(frags) = 1 THEN TlsRecord(frags[1] \o ExtraBytes(extra))
    ELSE TlsRecord(frags[1]) \o Records(Tail(frags), extra)

\* offsets at which the records of the stream start
RECURSIVE RecordStarts(_, _, _)
RecordStarts(frags, extra, off) ==
    IF frags = <<>> THEN {}
    ELSE {off} \cup RecordStarts(Tail(frags), extra, off + 5 + Len(frags[1]))

WellFormedStream(in) == Records(Fragments(HandshakeMessage(in.n), in.cuts, 1, 1), in.extra)

\* the stream of an input: well-formed, cut short after in.at bytes, or with
\* the content-type byte of the record at offset in.at overwritten
StreamOf(in) ==
    LET w == WellFormedStream(in)
    IN  CASE in.defect = "none" -> w
          [] in.defect = "truncated" -> SubSeq(w, 1, in.at)
          [] in.defect = "magic" -> [w EXCEPT ![in.at + 1] = 23]

Inputs ==
    LET Base == { [n |-> n, cuts |-> c, extra |-> x] :
                    n \in 0..MaxBody, c \in SUBSET (1..(3 + MaxBody)), x \in 0..MaxExtra }
        Ok == { b \in Base : b.cuts \subseteq 1..(3 + b.n) }
        Mk(b, d, a) == [n |-> b.n, cuts |-> b.cuts, extra |-> b.extra, defect |-> d, at |-> a]
        Len0(b) == Len(Records(Fragments(HandshakeMessage(b.n), b.cuts, 1, 1), b.extra))
        Starts(b) == RecordStarts(Fragments(HandshakeMessage(b.n), b.cuts, 1, 1), b.extra, 0)
    IN  UNION { {Mk(b, "none", 0)}
                \cup { Mk(b, "truncated", a) : a \in 0..(Len0(b) - 1) }
                \cup { Mk(b, "magic", a) : a \in Starts(b) } : b \in Ok }

\* the streams the orchestrator is run on: one record; cut short after a
\* 2-byte first record; wrong magic at offset 0; a record body cut short
LayerInputs ==
    { [n |-> 1, cuts |-> {}, extra |-> 0, defect |-> "none", at |-> 0],
      [n |-> 1, cuts |-> {2}, extra |-> 0, defect |-> "truncated", at |-> 7],
      [n |-> 1, cuts |-> {}, extra |-> 0, defect |-> "magic", at |-> 0],
      [n |-> 0, cuts |-> {}, extra |-> 1, defect |-> "truncated", at |-> 9] }

\* ------------------------------------------------------ ClientHello contents
\* ALPN tokens, as character sequences
http11 == <<"h", "t", "t", "p", "/", "1", ".", "1">>
h2 == <<"h", "2">>
h2_14 == <<"h", "2", "-", "1", "4">>
spdy3 == <<"s", "p", "d", "y", "/", "3">>
spd == <<"s", "p", "d">>

ServerName(t, n) == [type |-> t, name |-> n]
SniExtension(names) == [type |-> 0, server_names |-> names, alpn_protocols |-> <<>>]
AlpnExtension(protos) == [type |-> 16, server_names |-> <<>>, alpn_protocols |-> protos]
OtherExtension == [type |-> 5, server_names |-> <<>>, alpn_protocols |-> <<>>]

\* what ClientHello.parse returns for the reassembled body of the client's
\* hello: a ConstructError, or a ClientHello with one of these extension lists
ParseOutcomes ==
    { [error |-> TRUE, extensions |-> <<>>] } \cup
    { [error |-> FALSE, extensions |-> x] : x \in
        { <<>>,
          <<OtherExtension, SniExtension(<<ServerName(0, "a.com")>>)>>,
          <<SniExtension(<<>>)>>,
          <<AlpnExtension(<<h2, http11>>), SniExtension(<<>>)>>,
          <<SniExtension(<<ServerName(1, "x"), ServerName(0, "a.com")>>)>>,
          <<SniExtension(<<ServerName(1, "x")>>)>>,
          <<SniExtension(<<ServerName(0, "a.com")>>), AlpnExtension(<<h2, http11>>)>>,
          <<AlpnExtension(<<spdy3, h2_14, h2, spd>>)>>,
          <<AlpnExtension(<<spdy3>>)>>,
          <<AlpnExtension(<<>>)>>,
          <<SniExtension(<<ServerName(0, "a.com")>>), SniExtension(<<ServerName(0, "c.com")>>),
            AlpnExtension(<<h2>>), AlpnExtension(<<http11, h2>>)>> } }

\* the loop over client_hello.extensions; n counts the assignments made to
\* self.client_sni and self.client_alpn_protocols
RECURSIVE walk_extensions(_, _, _, _, _, _)
walk_extensions(exts, i, sni, alpn, lg, n) ==
    IF i > Len(exts)
    THEN [raised |-> NoError, client_sni |-> sni, client_alpn_protocols |-> alpn,
          log |-> Append(lg, "Parsed Client Hello"), assigned |-> n]
    ELSE
      LET e == exts[i] IN
      IF e.type = 0
      THEN
        LET unknown == IF Len(e.server_names) # 1 THEN TRUE
                       ELSE e.server_names[1].type # 0
            lg2 == IF unknown THEN Append(lg, "Unknown Server Name Indication") ELSE lg
        IN  IF Len(e.server_names) = 0
            THEN [raised |-> IndexError, client_sni |-> sni,
                  client_alpn_protocols |-> alpn, log |-> lg2, assigned |-> n]
            ELSE walk_extensions(exts, i + 1, e.server_names[1].name, alpn, lg2,
                                 [n EXCEPT !.client_sni = @ + 1])
      ELSE IF e.type = 16
      THEN walk_extensions(exts, i + 1, sni, List(e.alpn_protocols), lg,
                           [n EXCEPT !.client_alpn_protocols = @ + 1])
      ELSE walk_extensions(exts, i + 1, sni, alpn, lg, n)

\* _parse_client_hello on the stream, given what ClientHello.parse answers
parse_client_hello(file, pos, sni, alpn, lg, n, parsed) ==
    LET got == get_client_hello(file, pos) IN
    IF got.raised.type = "ProtocolException"
    THEN [raised |-> NoError, client_sni |-> sni, client_alpn_protocols |-> alpn,
          log |-> Append(lg, "Cannot parse Client Hello"), assigned |-> n]
    ELSE IF got.raised # NoError
    THEN [raised |-> got.raised, client_sni |-> sni, client_alpn_protocols |-> alpn,
          log |-> lg, assigned |-> n]
    ELSE IF parsed.error
    THEN [raised |-> NoError, client_sni |-> sni, client_alpn_protocols |-> alpn,
          log |-> lg \o <<"Cannot parse Client Hello", "Raw Client Hello">>, assigned |-> n]
    ELSE walk_extensions(parsed.extensions, 1, sni, alpn, lg, n)

\* ---------------------------------------------------------------- the state
VARIABLES
    pc,                      \* where __call__ stands
    client_tls,              \* self._client_tls
    server_tls,              \* self._server_tls
    no_upstream_cert,        \* self.config.no_upstream_cert
    sni_from_server_change,  \* self._sni_from_server_change
    client_sni,              \* self.client_sni
    client_alpn_protocols,   \* self.client_alpn_protocols
    rfile,                   \* the bytes the client sent (client_conn.rfile)
    rfile_pos,               \* the read cursor of client_conn.rfile
    server_conn,             \* self.server_conn
    client_conn,             \* self.client_conn
    raised,                  \* the exception that left __call__
    log,                     \* the messages passed to self.log
    trace,                   \* the events received and the calls made to the collaborators, in order
    input,                   \* how the client stream was built
    hello,                   \* what _get_client_hello returned or raised
    parsed_hello,            \* what ClientHello.parse returned
    last,                    \* the last connect/reconnect/set_server event
    assigned                 \* how often client_sni and client_alpn_protocols were assigned

vars == <<pc, client_tls, server_tls, no_upstream_cert, sni_from_server_change,
          client_sni, client_alpn_protocols, rfile, rfile_pos, server_conn,
          client_conn, raised, log, trace, input, hello, parsed_hello, last, assigned>>

\* server_conn.cert: the common name (or None) and the altnames
NoCert == [cn |-> None, altnames |-> {}]

NoHello == [raised |-> NoError, value |-> <<>>, offset |-> 0]
NoParse == [error |-> FALSE, extensions |-> <<>>]
NoEvent == [op |-> None, server_tls |-> None, ctx_ok |-> FALSE, tls_after_ctx |-> FALSE,
            tlen |-> 0, raised |-> NoError, args |-> <<>>]

\* TlsLayer.__init__, with the connection objects the context hands over
InitLayer ==
    /\ pc = "start"
    /\ sni_from_server_change = None
    /\ client_sni = None
    /\ client_alpn_protocols = NoneList
    /\ rfile = StreamOf(input)
    /\ rfile_pos = 0
    /\ server_conn = [connected |-> FALSE, tls_established |-> FALSE,
                      alpn_proto_negotiated |-> <<>>, ssl_verification_error |-> None,
                      address |-> "1.2.3.4", cert |-> NoCert]
    /\ client_conn = [tls_established |-> FALSE, alpn_selected |-> <<>>]
    /\ raised = NoError
    /\ log = <<>>
    /\ trace = <<>>
    /\ hello = NoHello
    /\ parsed_hello = NoParse
    /\ last = NoEvent
    /\ assigned = [client_sni |-> 0, client_alpn_protocols |-> 0]

Init ==
    /\ client_tls \in {True, False}
    /\ server_tls \in {True, False}
    /\ no_upstream_cert \in BOOLEAN
    /\ input \in LayerInputs
    /\ InitLayer

\* the layers the reassembler and the parser are exercised on
InitHello ==
    /\ client_tls = True
    /\ server_tls = False
    /\ no_upstream_cert = FALSE
    /\ input \in Inputs
    /\ InitLayer

\* the parse step reading the records instead of peeking at them
ParseClientHelloReading ==
    /\ pc = "start"
    /\ Truthy(client_tls)
    /\ \E parsed \in ParseOutcomes :
         LET got == get_client_hello(rfile, rfile_pos)
             r == parse_client_hello(rfile, rfile_pos, client_sni,
                                     client_alpn_protocols, log, assigned, parsed)
         IN  /\ got.raised = NoError \/ parsed = NoParse
             /\ hello' = got
             /\ rfile_pos' = got.offset
             /\ parsed_hello' = IF got.raised = NoError THEN parsed ELSE NoParse
             /\ client_sni' = r.client_sni
             /\ client_alpn_protocols' = r.client_alpn_protocols
             /\ log' = r.log
             /\ assigned' = r.assigned
             /\ raised' = r.raised
             /\ pc' = IF r.raised = NoError THEN "parsed" ELSE "raised"
    /\ UNCHANGED <<client_tls, server_tls, no_upstream_cert, sni_from_server_change,
                   rfile, server_conn, client_conn, trace, input, last>>

\* __call__, lines 69-70: the parse step
ParseClientHello ==
    /\ pc = "start"
    /\ Truthy(client_tls)
    /\ \E parsed \in ParseOutcomes :
         LET got == get_client_hello(rfile, rfile_pos)
             r == parse_client_hello(rfile, rfile_pos, client_sni,
                                     client_alpn_protocols, log, assigned, parsed)
         IN  /\ got.raised = NoError \/ parsed = NoParse
             /\ hello' = got
             /\ parsed_hello' = IF got.raised = NoError THEN parsed ELSE NoParse
             /\ client_sni' = r.client_sni
             /\ client_alpn_protocols' = r.client_alpn_protocols
             /\ log' = r.log
             /\ assigned' = r.assigned
             /\ raised' = r.raised
             /\ pc' = IF r.raised = NoError THEN "parsed" ELSE "raised"
    /\ UNCHANGED <<client_tls, server_tls, no_upstream_cert, sni_from_server_change,
                   rfile, rfile_pos, server_conn, client_conn, trace, input, last>>

\* ----------------------------------------------------- SNI and ALPN policy
\* the property sni_for_server_connection
sni_for_server_connection(override, sni) ==
    IF override = False THEN None ELSE PyOr(override, sni)

\* x in options
In(x, options) == \E i \in DOMAIN options : options[i] = x

\* HTTP1Protocol.ALPN_PROTO_HTTP1
default_alpn == http11

\* __alpn_select_callback preferring the default to the server's choice
alpn_select_default_first(upstream, options) ==
    IF In(default_alpn, options) THEN default_alpn
    ELSE IF In(upstream, options) THEN upstream
    ELSE options[1]

\* __alpn_select_callback; upstream is self.alpn_for_client_connection
alpn_select_callback(upstream, options) ==
    IF In(upstream, options) THEN upstream
    ELSE IF In(default_alpn, options) THEN default_alpn
    ELSE options[1]

\* x.startswith(prefix)
startswith(x, prefix) == Len(x) >= Len(prefix) /\ SubSeq(x, 1, Len(prefix)) = prefix

\* deprecated_http2_variant forgetting SPDY
deprecated_h2_only(x) == startswith(x, <<"h", "2", "-">>)

deprecated_http2_variant(x) ==
    startswith(x, <<"h", "2", "-">>) \/ startswith(x, <<"s", "p", "d", "y">>)

\* filter(lambda x: not deprecated_http2_variant(x), l)
RECURSIVE filter_deprecated(_)
filter_deprecated(l) ==
    IF l = <<>> THEN <<>>
    ELSE IF deprecated_http2_variant(Head(l)) THEN filter_deprecated(Tail(l))
    ELSE <<Head(l)>> \o filter_deprecated(Tail(l))

\* the alpn_protos argument of establish_ssl
alpn_for_server(offered) ==
    IF TruthyList(offered) THEN List(filter_deprecated(offered.v)) ELSE NoneList

\* ------------------------------------------------------------ collaborators
\* a call to a collaborator, as recorded in trace
Ev(op) == [op |-> op, result |-> "ok", sni |-> None, alpn |-> NoneList,
           override |-> None, client_sni |-> None, offered |-> NoneList,
           options |-> NoneList, choice |-> <<>>, upstream |-> <<>>, args |-> <<>>,
           host |-> None, sans |-> {}, seen |-> <<>>]

\* the connection objects, the log and the trace, threaded through the calls
World == [server_conn |-> server_conn, client_conn |-> client_conn,
          rfile_pos |-> rfile_pos, log |-> log, trace |-> trace]

FreshServerConn(address) ==
    [connected |-> FALSE, tls_established |-> FALSE, alpn_proto_negotiated |-> <<>>,
     ssl_verification_error |-> None, address |-> address, cert |-> NoCert]

\* ctx.connect(): opens the server connection, or fails
CtxOutcomes == {"ok", "fail"}
ctx_connect(w, out) ==
    IF out = "fail"
    THEN [w |-> [w EXCEPT !.trace = Append(@, [Ev("ctx.connect") EXCEPT !.result = "fail"])],
          raised |-> ProtocolException("Server connection failed", "NetLibError")]
    ELSE [w |-> [w EXCEPT !.trace = Append(@, Ev("ctx.connect")),
                          !.server_conn = [FreshServerConn(@.address) EXCEPT !.connected = TRUE]],
          raised |-> NoError]

\* ctx.reconnect(): closes the server connection and opens a new one, or fails
ctx_reconnect(w, out) ==
    IF out = "fail"
    THEN [w |-> [w EXCEPT !.trace = Append(@, [Ev("ctx.reconnect") EXCEPT !.result = "fail"]),
                          !.server_conn = FreshServerConn(@.address)],
          raised |-> ProtocolException("Server connection failed", "NetLibError")]
    ELSE [w |-> [w EXCEPT !.trace = Append(@, Ev("ctx.reconnect")),
                          !.server_conn = [FreshServerConn(@.address) EXCEPT !.connected = TRUE]],
          raised |-> NoError]

\* certificates an upstream server presents
UpstreamCert == [cn |-> "orig.com", altnames |-> {"alt1.com"}]
NamelessCert == [cn |-> None, altnames |-> {"alt1.com", "a.com"}]
Certs == { UpstreamCert, NamelessCert,
           [cn |-> "bücher.de", altnames |-> {}],
           [cn |-> "1.2.3.4", altnames |-> {"alt1.com", "1.2.3.4"}],
           [cn |-> "", altnames |-> {"1.2.3.4"}] }

\* what server_conn.establish_ssl can answer when these protocols are offered
ServerOutcomes(alpn) ==
    { [result |-> "ok", alpn |-> a, verr |-> None, cert |-> UpstreamCert] :
        a \in {<<>>} \cup { alpn.v[i] : i \in DOMAIN alpn.v } }
    \cup { [result |-> "ok", alpn |-> <<>>, verr |-> "verr", cert |-> UpstreamCert],
           [result |-> "ok", alpn |-> <<>>, verr |-> None, cert |-> NamelessCert] }
    \cup { [result |-> r, alpn |-> <<>>, cert |-> NoCert,
            verr |-> IF r = "NetLibInvalidCertificateError" THEN "verr" ELSE None] :
           r \in {"NetLibInvalidCertificateError", "NetLibError", "Exception"} }

\* _establish_tls_with_server treating a reported verification error as fatal
establish_tls_with_server_strict(w, override, sni, offered, out) ==
    LET alpn == alpn_for_server(offered)
        ev == [Ev("establish_ssl") EXCEPT
                 !.result = out.result,
                 !.sni = sni_for_server_connection(override, sni),
                 !.alpn = alpn,
                 !.override = override, !.client_sni = sni, !.offered = offered]
        w1 == [w EXCEPT !.trace = Append(@, ev),
                        !.log = Append(@, "Establish TLS with server")]
    IN
    CASE out.result = "ok" /\ out.verr # None ->
           [w |-> [w1 EXCEPT !.server_conn = [@ EXCEPT !.ssl_verification_error = out.verr]],
            raised |-> ProtocolException("Cannot establish TLS with server",
                                         "NetLibInvalidCertificateError")]
      [] out.result = "ok" ->
           [w |-> [w1 EXCEPT
                     !.server_conn = [@ EXCEPT !.tls_established = TRUE,
                                               !.alpn_proto_negotiated = out.alpn,
                                               !.ssl_verification_error = out.verr,
                                               !.cert = out.cert],
                     !.log = (IF out.verr # None
                              THEN @ \o <<"TLS verification failed for upstream server",
                                          "Ignoring server verification error, continuing with connection">>
                              ELSE @) \o <<"ALPN selected by server">>],
            raised |-> NoError]
      [] out.result = "NetLibInvalidCertificateError" ->
           [w |-> [w1 EXCEPT
                     !.server_conn = [@ EXCEPT !.ssl_verification_error = out.verr],
                     !.log = @ \o <<"TLS verification failed for upstream server",
                                    "Aborting connection attempt">>],
            raised |-> ProtocolException("Cannot establish TLS with server", out.result)]
      [] out.result = "NetLibError" ->
           [w |-> w1, raised |-> ProtocolException("Cannot establish TLS with server", out.result)]
      [] OTHER ->
           [w |-> w1, raised |-> [type |-> out.result, msg |-> "server", cause |-> None]]

\* _establish_tls_with_server
establish_tls_with_server(w, override, sni, offered, out) ==
    LET alpn == alpn_for_server(offered)
        ev == [Ev("establish_ssl") EXCEPT
                 !.result = out.result,
                 !.sni = sni_for_server_connection(override, sni),
                 !.alpn = alpn,
                 !.override = override, !.client_sni = sni, !.offered = offered]
        w1 == [w EXCEPT !.trace = Append(@, ev),
                        !.log = Append(@, "Establish TLS with server")]
    IN
    CASE out.result = "ok" ->
           [w |-> [w1 EXCEPT
                     !.server_conn = [@ EXCEPT !.tls_established = TRUE,
                                               !.alpn_proto_negotiated = out.alpn,
                                               !.ssl_verification_error = out.verr,
                                               !.cert = out.cert],
                     !.log = (IF out.verr # None
                              THEN @ \o <<"TLS verification failed for upstream server",
                                          "Ignoring server verification error, continuing with connection">>
                              ELSE @) \o <<"ALPN selected by server">>],
            raised |-> NoError]
      [] out.result = "NetLibInvalidCertificateError" ->
           [w |-> [w1 EXCEPT
                     !.server_conn = [@ EXCEPT !.ssl_verification_error = out.verr],
                     !.log = @ \o <<"TLS verification failed for upstream server",
                                    "Aborting connection attempt">>],
            raised |-> ProtocolException("Cannot establish TLS with server", out.result)]
      [] out.result = "NetLibError" ->
           [w |-> w1, raised |-> ProtocolException("Cannot establish TLS with server", out.result)]
      [] OTHER ->
           [w |-> w1, raised |-> [type |-> out.result, msg |-> "server", cause |-> None]]

\* cn.decode("utf8").encode("idna"): ASCII names are kept, others are
\* converted label by label
idna(name) == IF name = "bücher.de" THEN "xn--bcher-kva.de" ELSE name

\* _find_cert without the final sans.discard(host)
find_cert_keeping_host(sc) ==
    LET host == sc.address
        use_upstream_cert == sc.connected /\ sc.tls_established /\ ~no_upstream_cert
        sans1 == IF use_upstream_cert THEN sc.cert.altnames ELSE {}
        renamed == use_upstream_cert /\ Truthy(sc.cert.cn)
        sans2 == IF renamed THEN sans1 \cup {host} ELSE sans1
        host2 == IF renamed THEN idna(sc.cert.cn) ELSE host
        sans3 == IF Truthy(client_sni) THEN sans2 \cup {client_sni} ELSE sans2
        sans4 == IF Truthy(sni_from_server_change)
                 THEN sans3 \cup {sni_from_server_change} ELSE sans3
    IN  [host |-> host2, sans |-> sans4]

\* _find_cert: the host and the sans handed to certstore.get_cert
find_cert(sc) ==
    LET host == sc.address
        use_upstream_cert == sc.connected /\ sc.tls_established /\ ~no_upstream_cert
        sans1 == IF use_upstream_cert THEN sc.cert.altnames ELSE {}
        renamed == use_upstream_cert /\ Truthy(sc.cert.cn)
        sans2 == IF renamed THEN sans1 \cup {host} ELSE sans1
        host2 == IF renamed THEN idna(sc.cert.cn) ELSE host
        sans3 == IF Truthy(client_sni) THEN sans2 \cup {client_sni} ELSE sans2
        sans4 == IF Truthy(sni_from_server_change)
                 THEN sans3 \cup {sni_from_server_change} ELSE sans3
    IN  [host |-> host2, sans |-> sans4 \ {host2}]

\* what certstore.get_cert and client_conn.convert_to_ssl can answer
ClientOutcomes == {"ok", "NetLibError", "Exception"}

\* _establish_tls_with_client; the TLS engine reads the client's bytes and
\* calls the ALPN callback with the protocols the client offers
establish_tls_with_client(w, file, offered, out) ==
    LET w1 == [w EXCEPT !.log = Append(@, "Establish TLS with client")]
        found == find_cert(w.server_conn)
    IN
    IF out = "Exception"
    THEN [w |-> [w1 EXCEPT !.trace = Append(@, [Ev("get_cert") EXCEPT
                                                  !.result = out, !.host = found.host,
                                                  !.sans = found.sans])],
          raised |-> [type |-> out, msg |-> "client", cause |-> None]]
    ELSE
      LET fires == TruthyList(offered)
          upstream == w.server_conn.alpn_proto_negotiated
          choice == IF fires THEN alpn_select_callback(upstream, offered.v) ELSE <<>>
          ev == [Ev("convert_to_ssl") EXCEPT
                   !.result = out,
                   !.options = IF fires THEN offered ELSE NoneList,
                   !.choice = choice, !.upstream = upstream,
                   !.host = found.host, !.sans = found.sans,
                   !.seen = SliceFrom(file, w.rfile_pos)]
          w2 == [w1 EXCEPT !.trace = Append(@, ev),
                           !.rfile_pos = Len(file),
                           !.log = IF fires THEN Append(@, "ALPN for client") ELSE @]
      IN
      IF out = "ok"
      THEN [w |-> [w2 EXCEPT !.client_conn = [tls_established |-> TRUE,
                                              alpn_selected |-> choice]],
            raised |-> NoError]
      ELSE [w |-> w2,
            raised |-> ProtocolException("Cannot establish TLS with client", out)]

\* _establish_tls_with_client_and_server with the two handshakes swapped
establish_client_before_server(w, file, override, sni, offered, c, so, co) ==
    LET r1 == ctx_connect(w, c) IN
    IF r1.raised # NoError THEN r1
    ELSE
      LET r3 == establish_tls_with_client(r1.w, file, offered, co)
          r2 == establish_tls_with_server(r3.w, override, sni, offered, so)
      IN  IF r3.raised # NoError THEN r3 ELSE r2

\* _establish_tls_with_client_and_server letting the fallback's error out
establish_raising_fallback_error(w, file, override, sni, offered, c, so, co) ==
    LET r1 == ctx_connect(w, c) IN
    IF r1.raised # NoError THEN r1
    ELSE
      LET r2 == establish_tls_with_server(r1.w, override, sni, offered, so)
      IN  establish_tls_with_client(r2.w, file, offered, co)

\* _establish_tls_with_client_and_server with ctx.connect() inside the try
establish_covering_connect(w, file, override, sni, offered, c, so, co) ==
    LET r1 == ctx_connect(w, c) IN
    IF r1.raised # NoError
    THEN [w |-> establish_tls_with_client(r1.w, file, offered, co).w, raised |-> r1.raised]
    ELSE
      LET r2 == establish_tls_with_server(r1.w, override, sni, offered, so)
          r3 == establish_tls_with_client(r2.w, file, offered, co)
      IN  IF r2.raised # NoError
          THEN [w |-> r3.w, raised |-> r2.raised]
          ELSE r3

\* _establish_tls_with_client_and_server
establish_tls_with_client_and_server(w, file, override, sni, offered, c, so, co) ==
    LET r1 == ctx_connect(w, c) IN
    IF r1.raised # NoError THEN r1
    ELSE
      LET r2 == establish_tls_with_server(r1.w, override, sni, offered, so)
          r3 == establish_tls_with_client(r2.w, file, offered, co)
      IN  IF r2.raised # NoError
          THEN [w |-> r3.w, raised |-> r2.raised]
          ELSE r3

SetWorld(w) ==
    /\ server_conn' = w.server_conn
    /\ client_conn' = w.client_conn
    /\ rfile_pos' = w.rfile_pos
    /\ log' = w.log
    /\ trace' = w.trace

\* -------------------------------------------------------------- __call__
\* client_tls_requires_server_cert without the look at no_upstream_cert
requires_server_cert_ignoring_config ==
    Truthy(client_tls) /\ Truthy(server_tls)

client_tls_requires_server_cert ==
    Truthy(client_tls) /\ Truthy(server_tls) /\ ~no_upstream_cert

\* __call__ with client_tls off: nothing to do before the next layer
PassThrough ==
    /\ pc = "start"
    /\ ~Truthy(client_tls)
    /\ pc' = "established"
    /\ UNCHANGED <<assigned, client_tls, server_tls, no_upstream_cert, sni_from_server_change,
                   client_sni, client_alpn_protocols, rfile, rfile_pos, server_conn,
                   client_conn, raised, log, trace, input, hello, parsed_hello, last>>

\* __call__, lines 72-73
EstablishTlsWithClientAndServer ==
    /\ pc = "parsed"
    /\ client_tls_requires_server_cert
    /\ \E c \in CtxOutcomes, so \in ServerOutcomes(alpn_for_server(client_alpn_protocols)),
          co \in ClientOutcomes :
         LET r == establish_tls_with_client_and_server(
                      World, rfile, sni_from_server_change, client_sni,
                      client_alpn_protocols, c, so, co)
         IN  /\ SetWorld(r.w)
             /\ raised' = r.raised
             /\ pc' = IF r.raised = NoError THEN "established" ELSE "raised"
    /\ UNCHANGED <<assigned, client_tls, server_tls, no_upstream_cert, sni_from_server_change,
                   client_sni, client_alpn_protocols, rfile, input, hello,
                   parsed_hello, last>>

\* __call__, lines 74-75
EstablishTlsWithClient ==
    /\ pc = "parsed"
    /\ ~client_tls_requires_server_cert
    /\ Truthy(client_tls)
    /\ \E co \in ClientOutcomes :
         LET r == establish_tls_with_client(World, rfile, client_alpn_protocols, co)
         IN  /\ SetWorld(r.w)
             /\ raised' = r.raised
             /\ pc' = IF r.raised = NoError THEN "established" ELSE "raised"
    /\ UNCHANGED <<assigned, client_tls, server_tls, no_upstream_cert, sni_from_server_change,
                   client_sni, client_alpn_protocols, rfile, input, hello,
                   parsed_hello, last>>

\* the next layer started whether or not the establishment raised
NextLayerRegardless ==
    /\ pc \in {"established", "raised"}
    /\ pc' = "next_layer"
    /\ trace' = Append(trace, Ev("next_layer"))
    /\ UNCHANGED <<assigned, client_tls, server_tls, no_upstream_cert, sni_from_server_change,
                   client_sni, client_alpn_protocols, rfile, rfile_pos, server_conn,
                   client_conn, raised, log, input, hello, parsed_hello, last>>

\* __call__, lines 77-78: the next layer is obtained and started
NextLayer ==
    /\ pc = "established"
    /\ pc' = "next_layer"
    /\ trace' = Append(trace, Ev("next_layer"))
    /\ UNCHANGED <<assigned, client_tls, server_tls, no_upstream_cert, sni_from_server_change,
                   client_sni, client_alpn_protocols, rfile, rfile_pos, server_conn,
                   client_conn, raised, log, input, hello, parsed_hello, last>>

\* layer() returns
NextLayerReturns ==
    /\ pc = "next_layer"
    /\ pc' = "done"
    /\ UNCHANGED <<assigned, client_tls, server_tls, no_upstream_cert, sni_from_server_change,
                   client_sni, client_alpn_protocols, rfile, rfile_pos, server_conn,
                   client_conn, raised, log, trace, input, hello, parsed_hello, last>>

\* ------------------------------------------- events raised by the next layer
\* the calls the layers above have made to connect, reconnect and set_server
RECURSIVE CountOps(_, _)
CountOps(t, ops) ==
    IF t = <<>> THEN 0
    ELSE (IF Head(t).op \in ops THEN 1 ELSE 0) + CountOps(Tail(t), ops)

Events == CountOps(trace, {"connect()", "reconnect()", "set_server()"})

\* lazy_establish trying the server-side establishment a second time when
\* the first attempt fails
lazy_establish_retrying(r, out) ==
    IF r.raised # NoError THEN r
    ELSE IF Truthy(server_tls) /\ ~r.w.server_conn.tls_established
    THEN LET first == establish_tls_with_server(r.w, sni_from_server_change, client_sni,
                                                client_alpn_protocols, out)
         IN  IF first.raised = NoError THEN first
             ELSE establish_tls_with_server(first.w, sni_from_server_change, client_sni,
                                            client_alpn_protocols, out)
    ELSE r

\* lazy_establish without the look at tls_established
lazy_establish_always(r, out) ==
    IF r.raised # NoError THEN r
    ELSE IF Truthy(server_tls)
    THEN establish_tls_with_server(r.w, sni_from_server_change, client_sni,
                                   client_alpn_protocols, out)
    ELSE r

\* the second half of connect and reconnect
lazy_establish(r, out) ==
    IF r.raised # NoError THEN r
    ELSE IF Truthy(server_tls) /\ ~r.w.server_conn.tls_established
    THEN establish_tls_with_server(r.w, sni_from_server_change, client_sni,
                                   client_alpn_protocols, out)
    ELSE r

\* connect()
Connect ==
    /\ pc = "next_layer"
    /\ Events < MaxEvents
    /\ \E c \in CtxOutcomes, so \in ServerOutcomes(alpn_for_server(client_alpn_protocols)) :
         LET w0 == [World EXCEPT !.trace = Append(@, Ev("connect()"))]
             r1 == IF ~w0.server_conn.connected
                   THEN ctx_connect(w0, c)
                   ELSE [w |-> w0, raised |-> NoError]
             r2 == lazy_establish(r1, so)
         IN  /\ SetWorld(r2.w)
             /\ last' = [op |-> "connect()", server_tls |-> server_tls,
                         ctx_ok |-> r1.raised = NoError,
                         tls_after_ctx |-> r1.w.server_conn.tls_established,
                         tlen |-> Len(trace) + 1, raised |-> r2.raised, args |-> <<>>]
    /\ UNCHANGED <<assigned, pc, client_tls, server_tls, no_upstream_cert, sni_from_server_change,
                   client_sni, client_alpn_protocols, rfile, raised, input, hello,
                   parsed_hello>>

\* reconnect()
Reconnect ==
    /\ pc = "next_layer"
    /\ Events < MaxEvents
    /\ \E c \in CtxOutcomes, so \in ServerOutcomes(alpn_for_server(client_alpn_protocols)) :
         LET w0 == [World EXCEPT !.trace = Append(@, Ev("reconnect()"))]
             r1 == ctx_reconnect(w0, c)
             r2 == lazy_establish(r1, so)
         IN  /\ SetWorld(r2.w)
             /\ last' = [op |-> "reconnect()", server_tls |-> server_tls,
                         ctx_ok |-> r1.raised = NoError,
                         tls_after_ctx |-> r1.w.server_conn.tls_established,
                         tlen |-> Len(trace) + 1, raised |-> r2.raised, args |-> <<>>]
    /\ UNCHANGED <<assigned, pc, client_tls, server_tls, no_upstream_cert, sni_from_server_change,
                   client_sni, client_alpn_protocols, rfile, raised, input, hello,
                   parsed_hello>>

\* ctx.set_server(address, server_tls, sni, depth): at depth 1 the context
\* drops the server connection and takes the new address
ctx_set_server(w, address, tls, sni, depth) ==
    [w EXCEPT !.trace = Append(@, [Ev("ctx.set_server") EXCEPT
                                     !.args = <<address, tls, sni, depth>>]),
              !.server_conn = IF depth = 1 THEN FreshServerConn(address) ELSE @]

\* the arguments set_server is called with: <<address, server_tls, sni, depth>>
SetServerArgs ==
    { <<"up.com", t, n, 1>> : t \in {True, False}, n \in {None, False, "", "b.com"} }
    \cup { <<"up.com", None, "b.com", 1>>, <<"up.com", True, "b.com", 2>> }

\* set_server taking over the flags at depth 1 also when server_tls is None
SetServerAlways ==
    /\ pc = "next_layer"
    /\ Events < MaxEvents
    /\ \E a \in SetServerArgs :
         LET address == a[1]
             tls == a[2]
             sni == a[3]
             depth == a[4]
             w0 == [World EXCEPT !.trace = Append(@, [Ev("set_server()") EXCEPT !.args = a])]
         IN  /\ IF depth = 1
                THEN /\ SetWorld(ctx_set_server(w0, address, None, None, 1))
                     /\ sni_from_server_change' = sni
                     /\ server_tls' = tls
                ELSE /\ SetWorld(ctx_set_server(w0, address, tls, sni, depth))
                     /\ UNCHANGED <<sni_from_server_change, server_tls>>
             /\ last' = [op |-> "set_server()", server_tls |-> server_tls,
                         ctx_ok |-> TRUE, tls_after_ctx |-> FALSE,
                         tlen |-> Len(trace) + 1, raised |-> NoError, args |-> a]
    /\ UNCHANGED <<assigned, pc, client_tls, no_upstream_cert, client_sni, client_alpn_protocols,
                   rfile, raised, input, hello, parsed_hello>>

\* set_server(address, server_tls, sni, depth)
SetServer ==
    /\ pc = "next_layer"
    /\ Events < MaxEvents
    /\ \E a \in SetServerArgs :
         LET address == a[1]
             tls == a[2]
             sni == a[3]
             depth == a[4]
             w0 == [World EXCEPT !.trace = Append(@, [Ev("set_server()") EXCEPT !.args = a])]
         IN  /\ IF depth = 1 /\ tls # None
                THEN /\ SetWorld(ctx_set_server(w0, address, None, None, 1))
                     /\ sni_from_server_change' = sni
                     /\ server_tls' = tls
                ELSE /\ SetWorld(ctx_set_server(w0, address, tls, sni, depth))
                     /\ UNCHANGED <<sni_from_server_change, server_tls>>
             /\ last' = [op |-> "set_server()", server_tls |-> server_tls,
                         ctx_ok |-> TRUE, tls_after_ctx |-> FALSE,
                         tlen |-> Len(trace) + 1, raised |-> NoError, args |-> a]
    /\ UNCHANGED <<assigned, pc, client_tls, no_upstream_cert, client_sni, client_alpn_protocols,
                   rfile, raised, input, hello, parsed_hello>>

Next ==
    \/ ParseClientHello
    \/ PassThrough
    \/ EstablishTlsWithClientAndServer
    \/ EstablishTlsWithClient
    \/ NextLayer
    \/ NextLayerReturns
    \/ Connect
    \/ Reconnect
    \/ SetServer

Spec == Init /\ [][Next]_vars

SpecHello == InitHello /\ [][ParseClientHello]_vars

\* the layers _find_cert is exercised on: the parse step is over, the server
\* connection is closed, open, or TLS-established with some certificate
InitCert ==
    /\ client_tls = True
    /\ server_tls = False
    /\ no_upstream_cert \in BOOLEAN
    /\ input \in { [n |-> 1, cuts |-> {}, extra |-> 0, defect |-> "none", at |-> 0] }
    /\ pc = "parsed"
    /\ sni_from_server_change \in {None, False, "", "b.com", "orig.com"}
    /\ client_sni \in {None, "", "a.com", "orig.com", "1.2.3.4"}
    /\ client_alpn_protocols = NoneList
    /\ rfile = StreamOf(input)
    /\ rfile_pos = 0
    /\ server_conn \in
         { FreshServerConn("1.2.3.4"),
           [FreshServerConn("1.2.3.4") EXCEPT !.connected = TRUE] }
         \cup { [FreshServerConn("1.2.3.4") EXCEPT !.connected = TRUE,
                                                  !.tls_established = TRUE, !.cert = c] :
                c \in Certs }
    /\ client_conn = [tls_established |-> FALSE, alpn_selected |-> <<>>]
    /\ raised = NoError
    /\ log = <<"Parsed Client Hello">>
    /\ trace = <<>>
    /\ hello = [raised |-> NoError, value |-> HandshakeMessage(1), offset |-> 10]
    /\ parsed_hello = NoParse
    /\ last = NoEvent
    /\ assigned = [client_sni |-> 0, client_alpn_protocols |-> 0]

SpecCert == InitCert /\ [][EstablishTlsWithClient]_vars

\* ================================================================= properties
ClientOps == {"get_cert", "convert_to_ssl"}
ServerFirstConfig == client_tls = True /\ server_tls = True /\ no_upstream_cert = FALSE
ClientOnlyConfig == client_tls = True /\ (server_tls = False \/ no_upstream_cert = TRUE)
\* __call__ has finished its handshakes and no event has been delivered yet
InCall == pc \in {"established", "raised"}
ServerTlsDone == \E i \in DOMAIN trace : trace[i].op = "establish_ssl" /\ trace[i].result = "ok"
ServerTlsFailed == \E i \in DOMAIN trace : trace[i].op = "establish_ssl" /\ trace[i].result # "ok"
\* an exception left _parse_client_hello
ParseStepRaised == pc = "raised" /\ trace = <<>>

\* C1: in the server-first configuration, when the server-side establishment
\* succeeds, ctx.connect comes first, then the whole server-side
\* establishment, and only then the client-side establishment begins.
C1_ServerBeforeClient ==
    (InCall /\ ServerFirstConfig /\ ServerTlsDone) =>
        /\ \E k \in DOMAIN trace :
             /\ trace[k].op = "ctx.connect"
             /\ \A i \in DOMAIN trace :
                  trace[i].op \in ClientOps \cup {"establish_ssl"} => k < i
        /\ \A i, j \in DOMAIN trace :
             (trace[i].op = "establish_ssl" /\ trace[j].op \in ClientOps) => i < j
        /\ \E j \in DOMAIN trace : trace[j].op \in ClientOps

C1_Witness ==
    /\ pc = "established" /\ ServerFirstConfig
    /\ Len(trace) = 3
    /\ trace[2].op = "establish_ssl" /\ trace[2].result = "ok"
    /\ trace[3].op = "convert_to_ssl" /\ trace[3].result = "ok"

\* the exception _establish_tls_with_server raises when establish_ssl fails
ServerError(result) ==
    IF result \in {"NetLibError", "NetLibInvalidCertificateError"}
    THEN [type |-> "ProtocolException", msg |-> "Cannot establish TLS with server",
          cause |-> result]
    ELSE [type |-> result, msg |-> "server", cause |-> None]

\* C2: in the server-first configuration, when the server-side establishment
\* fails with E, the client-side establishment is attempted exactly once, after
\* the failure, and the exception leaving the layer is E whatever the fallback
\* attempt did.
C2_OriginalErrorPropagates ==
    \A i \in DOMAIN trace :
        (InCall /\ ServerFirstConfig /\ trace[i].op = "establish_ssl" /\ trace[i].result # "ok") =>
            /\ pc = "raised"
            /\ raised = ServerError(trace[i].result)
            /\ Cardinality({ j \in DOMAIN trace : trace[j].op \in ClientOps }) = 1
            /\ \A j \in DOMAIN trace : trace[j].op \in ClientOps => j > i

C2_Witness ==
    /\ pc = "raised" /\ ServerFirstConfig
    /\ Len(trace) = 3
    /\ trace[2].op = "establish_ssl" /\ trace[2].result = "NetLibError"
    /\ trace[3].op = "convert_to_ssl" /\ trace[3].result = "NetLibError"
    /\ raised.msg = "Cannot establish TLS with server"

\* C3: in the client-only configuration, the next layer is reached with
\* exactly one client-side establishment behind it and no ctx.connect and no
\* server-side establishment; and in every configuration the server connection
\* becomes TLS-established only inside the server-first step of __call__ or
\* inside a connect() or reconnect() event.
C3_NoServerBeforeNextLayer ==
    /\ (ClientOnlyConfig /\ pc \in {"parsed", "established", "raised"}) =>
          \A i \in DOMAIN trace : trace[i].op \notin {"ctx.connect", "ctx.reconnect", "establish_ssl"}
    /\ (ClientOnlyConfig /\ pc = "established") =>
          (Len(trace) = 1 /\ trace[1].op = "convert_to_ssl" /\ trace[1].result = "ok"
           /\ ~server_conn.connected /\ ~server_conn.tls_established)
    /\ (~ServerFirstConfig /\ pc \in {"start", "parsed", "established", "raised"}) =>
          ~server_conn.tls_established

C3_OnlyLaterEvents ==
    (~server_conn.tls_established /\ server_conn'.tls_established) =>
        \/ (pc = "parsed" /\ ServerFirstConfig)
        \/ (pc = "next_layer" /\ last'.op \in {"connect()", "reconnect()"}
            /\ Len(trace') > Len(trace) /\ trace'[Len(trace) + 1].op = last'.op)

C3_ClientOnlyDefersServer == []C3_NoServerBeforeNextLayer /\ [][C3_OnlyLaterEvents]_vars

C3_Witness ==
    /\ pc = "next_layer"
    /\ no_upstream_cert
    /\ Len(trace) = 5
    /\ trace[1].op = "convert_to_ssl"
    /\ trace[2].op = "next_layer"
    /\ trace[3].op = "connect()"
    /\ trace[5].op = "establish_ssl"
    /\ server_conn.tls_established

\* a server-side establishment was attempted inside the last event
AttemptedInLast ==
    \E i \in DOMAIN trace : i > last.tlen /\ trace[i].op = "establish_ssl"

\* C4: in a connect() or reconnect() event whose underlying (re)connect went
\* through, the server-side establishment is attempted if server_tls is on and
\* the server connection is not TLS-established at that point, and is not
\* attempted if server_tls is off or TLS is already established; so when the
\* event returns normally with server_tls on, the server connection is
\* TLS-established.
C4_LazyServerEstablishment ==
    last.op \in {"connect()", "reconnect()"} =>
        /\ (last.ctx_ok /\ server_tls = True /\ ~last.tls_after_ctx) => AttemptedInLast
        /\ (server_tls # True \/ ~last.ctx_ok \/ last.tls_after_ctx) => ~AttemptedInLast
        /\ (last.raised = NoError /\ server_tls = True) => server_conn.tls_established

C4_Witness ==
    /\ last.op = "connect()"
    /\ server_tls = True
    /\ last.tls_after_ctx
    /\ ~AttemptedInLast
    /\ last.raised = NoError
    /\ \E i \in DOMAIN trace : trace[i].op = "reconnect()"

\* C5: on a client stream with a defective record (wrong magic, header or
\* body cut short, at whichever record of the ClientHello), no exception
\* leaves the parse step and client_sni and client_alpn_protocols stay unset.
C5_ReassemblerFailureSwallowed ==
    (client_tls = True /\ pc # "start" /\ input.defect # "none") =>
        /\ ~ParseStepRaised
        /\ client_sni = None
        /\ client_alpn_protocols = NoneList

\* the SNI extensions of the parsed hello
SniExtensions == { i \in DOMAIN parsed_hello.extensions : parsed_hello.extensions[i].type = 0 }
\* the name of the first entry of type 0, or None
FirstHostName(names) ==
    IF \E k \in DOMAIN names : names[k].type = 0
    THEN names[CHOOSE k \in DOMAIN names :
                 names[k].type = 0 /\ \A m \in 1..(k - 1) : names[m].type # 0].name
    ELSE None

\* C6: when the hello was parsed and its SNI extension carries zero or more
\* than one server name, the parse step returns normally, a warning is
\* logged, and client_sni is the name of the first entry of type 0, or unset
\* when there is none.
C6_OddServerNameListDegrades ==
    \A i \in SniExtensions :
        (pc # "start" /\ Cardinality(SniExtensions) = 1
         /\ Len(parsed_hello.extensions[i].server_names) # 1) =>
            /\ ~ParseStepRaised
            /\ \E k \in DOMAIN log : log[k] = "Unknown Server Name Indication"
            /\ client_sni = FirstHostName(parsed_hello.extensions[i].server_names)

\* C7: for every handshake message and every way of cutting it into
\* well-formed records, _get_client_hello returns the handshake message.
C7_FragmentationIndependent ==
    (pc # "start" /\ input.defect = "none" /\ input.extra = 0) =>
        (hello.raised = NoError /\ hello.value = HandshakeMessage(input.n))

\* C8: every server-side establishment passes as SNI: nothing when the
\* override is False (ForceNone), the override when it is a name
\* (Explicit), and client_sni when there is no override (Unset).
C8_SniResolution ==
    \A i \in DOMAIN trace :
        trace[i].op = "establish_ssl" =>
            /\ trace[i].override = False => trace[i].sni = None
            /\ trace[i].override \notin {False, None} => trace[i].sni = trace[i].override
            /\ trace[i].override = None => trace[i].sni = client_sni

\* the call of the ALPN callback made by the client-side handshake, if any
CallbackCalls == { i \in DOMAIN trace : trace[i].op = "convert_to_ssl" /\ ~trace[i].options.none }
Offers(options, x) == \E k \in DOMAIN options : options[k] = x

\* C9: the ALPN callback answers the protocol negotiated with the server when
\* the client offers it, else http/1.1 when the client offers it, else the
\* client's first protocol; the answer is always one the client offers.
C9_AlpnSelection ==
    \A i \in CallbackCalls :
        LET options == trace[i].options.v
            negotiated == IF InCall THEN server_conn.alpn_proto_negotiated ELSE trace[i].upstream
            choice == trace[i].choice
        IN  /\ options # <<>>
            /\ Offers(options, negotiated) => choice = negotiated
            /\ (~Offers(options, negotiated) /\ Offers(options, http11)) => choice = http11
            /\ (~Offers(options, negotiated) /\ ~Offers(options, http11)) => choice = options[1]
            /\ Offers(options, choice)

C9_Witness ==
    /\ pc = "established"
    /\ \E i \in CallbackCalls :
         /\ trace[i].options.v = <<h2, http11>>
         /\ server_conn.alpn_proto_negotiated = h2
         /\ trace[i].choice = h2

HasPrefix(x, a, b, c) == Len(x) >= 3 /\ x[1] = a /\ x[2] = b /\ x[3] = c
Deprecated(x) == HasPrefix(x, "h", "2", "-") \/ (HasPrefix(x, "s", "p", "d") /\ Len(x) >= 4 /\ x[4] = "y")
KeepSupported(x) == ~Deprecated(x)

\* C10: every server-side establishment advertises the client's offered
\* protocols, in their order, without those starting with "h2-" or "spdy",
\* and advertises nothing when client_alpn_protocols is unset.
C10_AlpnAdvertised ==
    \A i \in DOMAIN trace :
        trace[i].op = "establish_ssl" =>
            /\ trace[i].alpn.v = SelectSeq(client_alpn_protocols.v, KeepSupported)
            /\ \A k \in DOMAIN trace[i].alpn.v : ~Deprecated(trace[i].alpn.v[k])
            /\ client_alpn_protocols.none => trace[i].alpn.none

C10_Witness ==
    \E i \in DOMAIN trace :
        /\ trace[i].op = "establish_ssl"
        /\ client_alpn_protocols = List(<<spdy3, h2_14, h2, spd>>)
        /\ trace[i].alpn = List(<<h2, spd>>)

\* the client-side establishments of the trace
ClientCalls == { i \in DOMAIN trace : trace[i].op \in ClientOps }
HasName(x) == x \notin {None, False, ""}
MirrorsUpstream == server_conn.tls_established /\ no_upstream_cert = FALSE

\* C11: the host and the SAN set handed to the certificate store are: the
\* destination host and nothing; with server TLS established and
\* no_upstream_cert off, the altnames of the upstream certificate, and when
\* it has a common name the destination host as a SAN and the IDNA form of the
\* common name as host; plus client_sni and the explicit override when
\* present; minus the host. So the host is never among the SANs, and without
\* mirroring the host is the destination host and the SANs are among
\* client_sni and the override.
C11_CertificateResolution ==
    \A i \in ClientCalls :
        InCall =>
          LET cn == server_conn.cert.cn
              named == MirrorsUpstream /\ HasName(cn)
              own == { n \in {client_sni, sni_from_server_change} : HasName(n) }
              all == own \cup { n \in server_conn.cert.altnames : MirrorsUpstream }
                         \cup { n \in {server_conn.address} : named }
          IN  /\ trace[i].host = IF named THEN idna(cn) ELSE server_conn.address
              /\ trace[i].sans = all \ {trace[i].host}
              /\ trace[i].host \notin trace[i].sans
              /\ ~MirrorsUpstream =>
                   (trace[i].host = server_conn.address /\ trace[i].sans \subseteq own)

C11_Witness ==
    /\ pc = "established"
    /\ server_conn.tls_established /\ ~no_upstream_cert
    /\ server_conn.cert.cn = "orig.com"
    /\ client_sni = "orig.com"
    /\ sni_from_server_change = "b.com"
    /\ \E i \in ClientCalls :
         trace[i].host = "orig.com" /\ trace[i].sans = {"alt1.com", "1.2.3.4", "b.com"}

VerificationLogged ==
    /\ \E k \in DOMAIN log : log[k] = "TLS verification failed for upstream server"
    /\ \E k \in DOMAIN log :
         log[k] = "Ignoring server verification error, continuing with connection"

\* C12: in the server-first step, a server-side establishment that returns
\* with a verification error reported is logged and followed by the
\* client-side establishment, whose success leads to the next layer; one that
\* fails with an invalid-certificate or another handshake error makes the
\* layer fail with a ProtocolException carrying that cause, the server
\* connection not being TLS-established. The same holds for the establishment
\* made by a connect() or reconnect() event.
C12_ServerVerificationHandling ==
    /\ \A i \in DOMAIN trace :
         (InCall /\ ServerFirstConfig /\ trace[i].op = "establish_ssl") =>
            /\ (trace[i].result = "ok" /\ server_conn.ssl_verification_error # None) =>
                 /\ VerificationLogged
                 /\ server_conn.tls_established
                 /\ \E j \in ClientCalls : j > i
                 /\ \A j \in ClientCalls : trace[j].result = "ok" => pc = "established"
                 /\ raised.msg # "Cannot establish TLS with server"
            /\ trace[i].result \in {"NetLibInvalidCertificateError", "NetLibError"} =>
                 /\ pc = "raised"
                 /\ raised.type = "ProtocolException"
                 /\ raised.cause = trace[i].result
                 /\ ~server_conn.tls_established
    /\ \A i \in DOMAIN trace :
         (last.op \in {"connect()", "reconnect()"} /\ i > last.tlen
          /\ trace[i].op = "establish_ssl") =>
            /\ (trace[i].result = "ok" /\ server_conn.ssl_verification_error # None) =>
                 (VerificationLogged /\ last.raised = NoError /\ server_conn.tls_established)
            /\ trace[i].result \in {"NetLibInvalidCertificateError", "NetLibError"} =>
                 /\ last.raised.type = "ProtocolException"
                 /\ last.raised.cause = trace[i].result
                 /\ ~server_conn.tls_established

C12_Witness ==
    /\ pc = "established" /\ ServerFirstConfig
    /\ server_conn.ssl_verification_error # None
    /\ server_conn.tls_established
    /\ VerificationLogged
    /\ Len(trace) = 3 /\ trace[3].op = "convert_to_ssl" /\ trace[3].result = "ok"

\* the step is a set_server event with arguments a
IsSetServer(a) ==
    /\ Len(trace') = Len(trace) + 2
    /\ trace'[Len(trace) + 1].op = "set_server()"
    /\ trace'[Len(trace) + 1].args = a
Forwarded == trace'[Len(trace) + 2]

\* C13 as stated: after every set_server call with depth 1 the layer's
\* server_tls flag and SNI override are the supplied values, whatever the
\* supplied server_tls, and the destination address is the supplied one.
C13_Depth1AlwaysOverrides ==
    (last.op = "set_server()" /\ last.args[4] = 1) =>
        /\ server_tls = last.args[2]
        /\ sni_from_server_change = last.args[3]
        /\ server_conn.address = last.args[1]

\* C13 amended: a set_server call with depth 1 and a server_tls that is not
\* None sets the flag and the override to the supplied values and passes
\* (address, None, None, 1) to the context; a call with depth 1 and
\* server_tls None, or with depth above 1, leaves the flag and the override
\* unchanged and is forwarded with the same four arguments. At depth 1 the
\* destination address is overridden in both cases.
C13_SetServerStep ==
    \A a \in SetServerArgs :
        IsSetServer(a) =>
            /\ (a[4] = 1 /\ a[2] # None) =>
                 /\ server_tls' = a[2]
                 /\ sni_from_server_change' = a[3]
                 /\ Forwarded.op = "ctx.set_server"
                 /\ Forwarded.args = <<a[1], None, None, 1>>
            /\ (a[4] > 1 \/ a[2] = None) =>
                 /\ server_tls' = server_tls
                 /\ sni_from_server_change' = sni_from_server_change
                 /\ Forwarded.op = "ctx.set_server"
                 /\ Forwarded.args = a
            /\ a[4] = 1 => server_conn'.address = a[1]

C13_SetServer == [][C13_SetServerStep]_vars

C13_Witness ==
    /\ last.op = "set_server()"
    /\ last.args = <<"up.com", True, "b.com", 1>>
    /\ last.server_tls = False
    /\ server_tls = True
    /\ sni_from_server_change = "b.com"
    /\ server_conn.address = "up.com"

ServerCalls == { i \in DOMAIN trace : trace[i].op = "establish_ssl" }

\* C14 as stated: on one layer instance the client-side establishment is
\* attempted at most once and the server-side establishment at most once.
C14_AtMostOneEach ==
    /\ Cardinality(ClientCalls) <= 1
    /\ Cardinality(ServerCalls) <= 1

\* C14 amended: the client-side establishment is attempted at most once; the
\* server-side establishment is attempted at most once in __call__ and at
\* most once in each connect() or reconnect() event, and never in a
\* set_server() event.
C14_OncePerEvent ==
    /\ Cardinality(ClientCalls) <= 1
    /\ \A i, j \in ServerCalls :
         i < j => \E k \in (i + 1)..(j - 1) : trace[k].op \in {"connect()", "reconnect()"}
    /\ \A i \in ServerCalls :
         \A k \in 1..(i - 1) :
             trace[k].op = "set_server()" =>
                 \E m \in (k + 1)..(i - 1) : trace[m].op \in {"connect()", "reconnect()"}
    /\ Cardinality(ServerCalls) <=
         1 + Cardinality({ k \in DOMAIN trace : trace[k].op \in {"connect()", "reconnect()"} })

C14_Witness ==
    /\ Cardinality(ClientCalls) = 1
    /\ Cardinality(ServerCalls) = 3
    /\ \E i \in DOMAIN trace : trace[i].op = "reconnect()"

\* C15: client_sni and client_alpn_protocols are each assigned at most once
\* whatever the ClientHello carries, only by the parse step, which comes
\* before every client- or server-side establishment; no later step changes
\* them.
C15_AssignedAtMostOnce ==
    /\ assigned.client_sni <= 1
    /\ assigned.client_alpn_protocols <= 1
    /\ (assigned.client_sni = 0 => client_sni = None)
    /\ (assigned.client_alpn_protocols = 0 => client_alpn_protocols = NoneList)

C15_FrozenAfterParse ==
    (pc # "start" \/ trace # <<>>) =>
        (client_sni' = client_sni /\ client_alpn_protocols' = client_alpn_protocols
         /\ assigned' = assigned)

C15_WriteOnce == []C15_AssignedAtMostOnce /\ [][C15_FrozenAfterParse]_vars

\* C16: the parse step leaves the client stream and its read cursor as they
\* were, whatever the stream and whether reassembly and parsing succeed, so
\* the TLS engine later reads the client's bytes from offset 0.
C16_ParseOnlyPeeks ==
    /\ rfile = StreamOf(input)
    /\ (\A i \in DOMAIN trace : trace[i].op # "convert_to_ssl") => rfile_pos = 0
    /\ \A i \in DOMAIN trace :
         trace[i].op = "convert_to_ssl" => trace[i].seen = StreamOf(input)

C16_Witness ==
    /\ pc = "established"
    /\ hello.raised = NoError /\ hello.offset = Len(rfile) /\ Len(rfile) > 0
    /\ \E i \in DOMAIN trace : trace[i].op = "convert_to_ssl" /\ trace[i].seen = rfile

\* the 3-byte big-endian number at bytes 1..3 of a handshake message
HandshakeLength(m) == (m[2] * 256 + m[3]) * 256 + m[4]

\* C17: whenever _get_client_hello returns, the result is exactly 4 +
\* handshake_length bytes long, also when the last record carries more bytes
\* than the ClientHello needs.
C17_ExactLength ==
    (pc # "start" /\ hello.raised = NoError) =>
        (Len(hello.value) >= 4 /\ Len(hello.value) = 4 + HandshakeLength(hello.value))

\* C18: when the server-side establishment has succeeded before the ALPN
\* callback is called, the protocol the callback answers is the one
\* negotiated with the server.
C18_LegsCoherent ==
    \A i \in CallbackCalls :
        (InCall /\ \E j \in ServerCalls : j < i /\ trace[j].result = "ok") =>
            trace[i].choice = server_conn.alpn_proto_negotiated

NextLayerCalls == { i \in DOMAIN trace : trace[i].op = "next_layer" }
Ops == [i \in DOMAIN trace |-> trace[i].op]
NetLibErrors == {"NetLibError", "NetLibInvalidCertificateError"}
\* the first step of __call__ that raised is a handshake with the server or the
\* client that the TLS engine reports as failed
HandshakeFailed ==
    \E i \in DOMAIN trace :
        /\ trace[i].op \in {"establish_ssl", "convert_to_ssl"}
        /\ trace[i].result \in NetLibErrors
        /\ \A j \in 1..(i - 1) : trace[j].result = "ok"
\* every step before position k of the trace is a step of __call__ that
\* completed without raising
StepsCompleted(k) ==
    \A i \in 1..(k - 1) :
        trace[i].result = "ok" /\ trace[i].op \in {"ctx.connect", "establish_ssl", "convert_to_ssl"}

\* C19: __call__ starts the next layer exactly once when every step its
\* configuration requires has completed without raising, after those steps,
\* and never otherwise; a handshake the TLS engine reports as failed leaves
\* __call__ as a ProtocolException; with client_tls off the next layer starts
\* with no peek, no parse and no handshake before it.
C19_NextLayerHandOff ==
    /\ Cardinality(NextLayerCalls) <= 1
    /\ NextLayerCalls # {} <=> pc \in {"next_layer", "done"}
    /\ \A k \in NextLayerCalls :
         /\ StepsCompleted(k)
         /\ raised = NoError
         /\ IF Truthy(client_tls)
            THEN k > 1 /\ trace[k - 1].op = "convert_to_ssl" /\ hello # NoHello
            ELSE /\ k = 1
                 /\ hello = NoHello /\ parsed_hello = NoParse
                 /\ assigned.client_sni = 0 /\ assigned.client_alpn_protocols = 0
                 /\ rfile_pos = 0 /\ client_conn.tls_established = FALSE
    /\ pc = "established" =>
         /\ StepsCompleted(Len(trace) + 1)
         /\ raised = NoError
         /\ ServerFirstConfig => Ops = <<"ctx.connect", "establish_ssl", "convert_to_ssl">>
         /\ ClientOnlyConfig => Ops = <<"convert_to_ssl">>
         /\ ~Truthy(client_tls) => Ops = <<>>
    /\ pc = "raised" =>
         /\ raised # NoError
         /\ ~StepsCompleted(Len(trace) + 1) \/ ParseStepRaised
         /\ HandshakeFailed =>
              raised.type = "ProtocolException" /\ raised.cause \in NetLibErrors

\* once the steps have completed, nothing but starting the next layer follows
C19_ThenNextLayer ==
    (pc = "established" => pc' = "next_layer") /\ (pc = "raised" => pc' = "raised")

C19_HandOff == []C19_NextLayerHandOff /\ [][C19_ThenNextLayer]_vars

C19_Witness ==
    /\ pc = "done" /\ client_tls = True /\ server_tls = True /\ no_upstream_cert = FALSE
    /\ Len(trace) >= 4
    /\ trace[4].op = "next_layer" /\ trace[2].op = "establish_ssl"

\* C20: in the server-first configuration, when ctx.connect() fails, neither
\* the server-side nor the client-side establishment is attempted, the error
\* of ctx.connect() leaves __call__ as it is, and the next layer is not started.
C20_ConnectFailureNotCovered ==
    (ServerFirstConfig /\ InCall /\ trace # <<>>
        /\ trace[1].op = "ctx.connect" /\ trace[1].result = "fail") =>
        /\ Len(trace) = 1
        /\ pc = "raised"
        /\ raised = ProtocolException("Server connection failed", "NetLibError")
        /\ client_conn.tls_established = FALSE /\ server_conn.tls_established = FALSE
        /\ rfile_pos = 0

C20_Witness ==
    /\ pc = "raised" /\ ServerFirstConfig
    /\ Len(trace) = 1 /\ trace[1].op = "ctx.connect" /\ trace[1].result = "fail"
    /\ raised.msg = "Server connection failed"

====
